---- MODULE Spec2Model ----
(***************************************************************************)
(* Model of spotify_lyrics_matrix.py: the Poller and Fetcher threads, the  *)
(* three queues between them and the render loop of main(), and the pure   *)
(* lookup current_line_index.                                              *)
(*                                                                         *)
(* Every queue operation (get_nowait, get, put_nowait) is one atomic step: *)
(* queue.Queue serialises them with its mutex.  Each thread has a program  *)
(* counter; a step of a thread is one queue operation or one remote call   *)
(* together with the local computation that follows it.                    *)
(***************************************************************************)
EXTENDS Integers, Sequences, FiniteSets, TLC

\* ---------------------------------------------------------------- bounds
MaxPolls == 3
MaxFrames == 3
MaxLen == 3
MaxTs == 2
MaxNow == 5000000
MaxLines == 3
MaxText == 4
MaxRequests == 3
MaxCycles == 2

\* ------------------------------------------------------ program constants
PbQMaxsize == 2
ReqQMaxsize == 1
AssetQMaxsize == 1

None == "None"
Tracks == {"A", "B"}

VARIABLES
  pb_q, req_q, asset_q,
  ppc, p_stop, snap, polls, pollResult,
  fpc, f_stop, f_item, f_assets,
  mpc, last_snapshot, last_seen_tid, cur_assets, tick,
  frames, staleRun, seenLog, reqLog, drained,
  pbLast, pbDelivered, pbSuperseded,
  asLast, asDelivered, asSuperseded,
  reqLast, reqDequeued, reqSuperseded,
  pushFailed, pubAfterStop, cycleAtStop,
  lrc, t, lo, hi, ans, lpc,
  now, lrc_offset_ms, rpc, progress_ms, t_ms, line_now, shown,
  lrc_text, raw_lines, out, parse_pc,
  mq_text, mq_max, mq_cps, mq_gap, mq_tick, mq_out, mq_pc,
  aurl, img_i, img_tries, lyr_reply

queueVars == <<pb_q, req_q, asset_q>>
pollerVars == <<ppc, p_stop, snap, polls, pollResult>>
fetcherVars == <<fpc, f_stop, f_item, f_assets>>
mainVars == <<mpc, last_snapshot, last_seen_tid, cur_assets, tick>>
frameVars == <<frames, staleRun, seenLog, reqLog, drained>>
pbHist == <<pbLast, pbDelivered, pbSuperseded>>
asHist == <<asLast, asDelivered, asSuperseded>>
reqHist == <<reqLast, reqDequeued, reqSuperseded>>
stopHist == <<pubAfterStop, cycleAtStop>>
lookupVars == <<lrc, t, lo, hi, ans, lpc>>
renderVars == <<now, lrc_offset_ms, rpc, progress_ms, t_ms, line_now, shown>>
parseVars == <<lrc_text, raw_lines, out, parse_pc>>
marqueeVars == <<mq_text, mq_max, mq_cps, mq_gap, mq_tick, mq_out, mq_pc>>
fetchVars == <<aurl, img_i, img_tries, lyr_reply>>
pureVars == <<renderVars, parseVars, marqueeVars, fetchVars>>
vars == <<queueVars, pollerVars, fetcherVars, mainVars, frameVars, pbHist, asHist, reqHist, pushFailed, stopHist, lookupVars, pureVars>>

\* ------------------------------------------------------------ data
\* PlaybackSnapshot: item is the track (identified by its id) or None;
\* seq numbers the successful polls, 0 is the snapshot built by main().
PlaybackSnapshot(item, seq) == [item |-> item, seq |-> seq]

\* TrackAssets: tid is the id of the track the assets were fetched for;
\* seq is the seq of the snapshot whose item was the request.
TrackAssets(tid, seq) == [tid |-> tid, seq |-> seq]

\* tid = (item.get("id") if item else None)
SnapTid(s) == s.item

\* put_nowait raises queue.Full when the queue already holds maxsize items
QFull(q, maxsize) == Len(q) >= maxsize

QPutNowait(q, v, maxsize) == IF QFull(q, maxsize) THEN q ELSE Append(q, v)

\* ------------------------------------------------------------ Poller.run
\* A poll cycle is in progress at these program points.  The test of the
\* stop flag and the remote query that follows it form one step: the query
\* touches nothing the other threads see.
PollerLoopPcs == {"drain", "put"}

\* while not self._stop.is_set()
PollerRunning_IgnoresStop == TRUE

PollerRunning == ~p_stop

\* the while condition is false: run() returns
PollerExit ==
  /\ ppc = "check"
  /\ ~PollerRunning
  /\ ppc' = "done"
  /\ UNCHANGED <<queueVars, p_stop, snap, polls, pollResult, fetcherVars, mainVars, frameVars, pbHist, asHist, reqHist, pushFailed, stopHist, lookupVars, pureVars>>

\* the remote query raises: except Exception: pass; time.sleep; next iteration
PollerPollFail_Dies ==
  /\ ppc = "check"
  /\ PollerRunning
  /\ pollResult' = "fail"
  /\ ppc' = "done"
  /\ UNCHANGED <<queueVars, p_stop, snap, polls, fetcherVars, mainVars, frameVars, pbHist, asHist, reqHist, pushFailed, stopHist, lookupVars, pureVars>>

PollerPollFail ==
  /\ ppc = "check"
  /\ PollerRunning
  /\ pollResult' = "fail"
  /\ ppc' = "check"
  /\ UNCHANGED <<queueVars, p_stop, snap, polls, fetcherVars, mainVars, frameVars, pbHist, asHist, reqHist, pushFailed, stopHist, lookupVars, pureVars>>

\* the remote query returns: a snapshot of the item, or of nothing playing
PollerPollOk ==
  /\ ppc = "check"
  /\ PollerRunning
  /\ polls < MaxPolls
  /\ \E item \in Tracks \cup {None} :
       snap' = PlaybackSnapshot(item, polls + 1)
  /\ polls' = polls + 1
  /\ pollResult' = IF pollResult = "fail" THEN "ok_after_fail" ELSE "ok"
  /\ ppc' = "drain"
  /\ UNCHANGED <<queueVars, p_stop, fetcherVars, mainVars, frameVars, pbHist, asHist, reqHist, pushFailed, stopHist, lookupVars, pureVars>>

\* while True: self.out_q.get_nowait()  -- one get_nowait per step
PollerDrain_NoDiscard ==
  /\ ppc = "drain"
  /\ ppc' = "put"
  /\ UNCHANGED <<queueVars, p_stop, snap, polls, pollResult, fetcherVars, mainVars, frameVars, pbHist, asHist, reqHist, pushFailed, stopHist, lookupVars, pureVars>>

PollerDrain ==
  /\ ppc = "drain"
  /\ IF pb_q # <<>>
       THEN pb_q' = Tail(pb_q) /\ ppc' = "drain"
       ELSE pb_q' = pb_q /\ ppc' = "put"
  /\ UNCHANGED <<req_q, asset_q, p_stop, snap, polls, pollResult, fetcherVars, mainVars, frameVars, pbHist, asHist, reqHist, pushFailed, stopHist, lookupVars, pureVars>>

\* self.out_q.put_nowait(snap); queue.Full is swallowed by except Exception;
\* time.sleep(self.poll_ms / 1000.0)
PollerPut ==
  /\ ppc = "put"
  /\ pb_q' = QPutNowait(pb_q, snap, PbQMaxsize)
  /\ pushFailed' = IF QFull(pb_q, PbQMaxsize) THEN pushFailed \cup {"pb"} ELSE pushFailed
  /\ pbLast' = IF QFull(pb_q, PbQMaxsize) THEN pbLast ELSE snap.seq
  /\ pbSuperseded' = IF pbLast # 0 /\ pbLast \notin pbDelivered
                       THEN pbSuperseded \cup {pbLast} ELSE pbSuperseded
  /\ pubAfterStop' = IF p_stop /\ ~QFull(pb_q, PbQMaxsize) THEN pubAfterStop + 1 ELSE pubAfterStop
  /\ ppc' = "check"
  /\ UNCHANGED <<req_q, asset_q, p_stop, snap, polls, pollResult, fetcherVars, mainVars, frameVars, pbDelivered, asHist, reqHist, cycleAtStop, lookupVars, pureVars>>

Poller == PollerExit \/ PollerPollFail \/ PollerPollOk \/ PollerDrain \/ PollerPut

\* ------------------------------------------------------------ Fetcher.run
\* the request main() queues is the snapshot's item (the track dict)
Request(item, seq) == [item |-> item, seq |-> seq]

\* while not self._stop.is_set()
FetcherRunning == ~f_stop

\* the while condition is false: run() returns
FetcherExit ==
  /\ fpc = "check"
  /\ ~FetcherRunning
  /\ fpc' = "done"
  /\ UNCHANGED <<queueVars, pollerVars, f_stop, f_item, f_assets, mainVars, frameVars, pbHist, asHist, reqHist, pushFailed, stopHist, lookupVars, pureVars>>

\* self.in_q.get(timeout=0.5) times out: except queue.Empty: continue
FetcherIdle ==
  /\ fpc = "check"
  /\ FetcherRunning
  /\ req_q = <<>>
  /\ fpc' = "check"
  /\ UNCHANGED <<queueVars, pollerVars, f_stop, f_item, f_assets, mainVars, frameVars, pbHist, asHist, reqHist, pushFailed, stopHist, lookupVars, pureVars>>

\* item = self.in_q.get(timeout=0.5); assets = TrackAssets();
\* assets.tid = item.get("id") or ""; album art and lyrics are fetched
FetcherGet ==
  /\ fpc = "check"
  /\ FetcherRunning
  /\ req_q # <<>>
  /\ f_item' = Head(req_q)
  /\ req_q' = Tail(req_q)
  /\ reqDequeued' = reqDequeued \cup {Head(req_q).seq}
  /\ f_assets' = TrackAssets(Head(req_q).item, Head(req_q).seq)
  /\ fpc' = "drain"
  /\ UNCHANGED <<pb_q, asset_q, pollerVars, f_stop, mainVars, frameVars, pbHist, asHist, reqLast, reqSuperseded, pushFailed, stopHist, lookupVars, pureVars>>

\* while True: self.out_q.get_nowait()  -- one get_nowait per step
FetcherDrain_NoDiscard ==
  /\ fpc = "drain"
  /\ fpc' = "put"
  /\ UNCHANGED <<queueVars, pollerVars, f_stop, f_item, f_assets, mainVars, frameVars, pbHist, asHist, reqHist, pushFailed, stopHist, lookupVars, pureVars>>

FetcherDrain ==
  /\ fpc = "drain"
  /\ IF asset_q # <<>>
       THEN asset_q' = Tail(asset_q) /\ fpc' = "drain"
       ELSE asset_q' = asset_q /\ fpc' = "put"
  /\ UNCHANGED <<pb_q, req_q, pollerVars, f_stop, f_item, f_assets, mainVars, frameVars, pbHist, asHist, reqHist, pushFailed, stopHist, lookupVars, pureVars>>

\* try: self.out_q.put_nowait(assets) except queue.Full: pass
FetcherPut ==
  /\ fpc = "put"
  /\ asset_q' = QPutNowait(asset_q, f_assets, AssetQMaxsize)
  /\ pushFailed' = IF QFull(asset_q, AssetQMaxsize) THEN pushFailed \cup {"asset"} ELSE pushFailed
  /\ asLast' = IF QFull(asset_q, AssetQMaxsize) THEN asLast ELSE f_assets.seq
  /\ asSuperseded' = IF asLast # 0 /\ asLast \notin asDelivered
                       THEN asSuperseded \cup {asLast} ELSE asSuperseded
  /\ fpc' = "check"
  /\ UNCHANGED <<pb_q, req_q, pollerVars, f_stop, f_item, f_assets, mainVars, frameVars, pbHist, asDelivered, reqHist, stopHist, lookupVars, pureVars>>

Fetcher == FetcherExit \/ FetcherIdle \/ FetcherGet \/ FetcherDrain \/ FetcherPut

\* ------------------------------------------------------------ main loop
\* Program points of the render loop: each is a queue operation of main();
\* the computation between two queue operations belongs to the step of the
\* first.
MainLoopPcs == {"drain_pb", "drain_req", "put_req", "assets"}

\* while True: last_snapshot = pb_q.get_nowait()  -- a snapshot is present
MainDrainPb ==
  /\ mpc = "drain_pb"
  /\ frames < MaxFrames
  /\ pb_q # <<>>
  /\ last_snapshot' = Head(pb_q)
  /\ pb_q' = Tail(pb_q)
  /\ pbDelivered' = pbDelivered \cup {Head(pb_q).seq}
  /\ drained' = TRUE
  /\ mpc' = "drain_pb"
  /\ UNCHANGED <<req_q, asset_q, pollerVars, fetcherVars, last_seen_tid, cur_assets, tick, frames, staleRun, seenLog, reqLog, pbLast, pbSuperseded, asHist, reqHist, pushFailed, stopHist, lookupVars, pureVars>>

\* if tid and tid != last_seen_tid
TrackChanged(tid, last) == tid # None /\ tid # last

\* except queue.Empty: break;  tid = (item.get("id") if item else None)
\* if tid and tid != last_seen_tid: last_seen_tid = tid
MainTrack_NoRecord ==
  /\ mpc = "drain_pb"
  /\ frames < MaxFrames
  /\ pb_q = <<>>
  /\ seenLog' = Append(seenLog, SnapTid(last_snapshot))
  /\ drained' = FALSE
  /\ IF TrackChanged(SnapTid(last_snapshot), last_seen_tid)
       THEN last_seen_tid' = last_seen_tid /\ mpc' = "drain_req"
       ELSE last_seen_tid' = last_seen_tid /\ mpc' = "assets"
  /\ UNCHANGED <<queueVars, pollerVars, fetcherVars, last_snapshot, cur_assets, tick, frames, staleRun, reqLog, pbHist, asHist, reqHist, pushFailed, stopHist, lookupVars, pureVars>>

MainTrack ==
  /\ mpc = "drain_pb"
  /\ frames < MaxFrames
  /\ pb_q = <<>>
  /\ seenLog' = Append(seenLog, SnapTid(last_snapshot))
  /\ drained' = FALSE
  /\ IF TrackChanged(SnapTid(last_snapshot), last_seen_tid)
       THEN last_seen_tid' = SnapTid(last_snapshot) /\ mpc' = "drain_req"
       ELSE last_seen_tid' = last_seen_tid /\ mpc' = "assets"
  /\ UNCHANGED <<queueVars, pollerVars, fetcherVars, last_snapshot, cur_assets, tick, frames, staleRun, reqLog, pbHist, asHist, reqHist, pushFailed, stopHist, lookupVars, pureVars>>

\* while True: req_q.get_nowait()  -- one get_nowait per step
MainDrainReq_NoDiscard ==
  /\ mpc = "drain_req"
  /\ mpc' = "put_req"
  /\ UNCHANGED <<queueVars, pollerVars, fetcherVars, last_snapshot, last_seen_tid, cur_assets, tick, frameVars, pbHist, asHist, reqHist, pushFailed, stopHist, lookupVars, pureVars>>

MainDrainReq ==
  /\ mpc = "drain_req"
  /\ IF req_q # <<>>
       THEN req_q' = Tail(req_q) /\ mpc' = "drain_req"
       ELSE req_q' = req_q /\ mpc' = "put_req"
  /\ UNCHANGED <<pb_q, asset_q, pollerVars, fetcherVars, last_snapshot, last_seen_tid, cur_assets, tick, frameVars, pbHist, asHist, reqHist, pushFailed, stopHist, lookupVars, pureVars>>

\* try: req_q.put_nowait(item) except queue.Full: pass
MainPutReq ==
  /\ mpc = "put_req"
  /\ req_q' = QPutNowait(req_q, Request(last_snapshot.item, last_snapshot.seq), ReqQMaxsize)
  /\ pushFailed' = IF QFull(req_q, ReqQMaxsize) THEN pushFailed \cup {"req"} ELSE pushFailed
  /\ reqLast' = IF QFull(req_q, ReqQMaxsize) THEN reqLast ELSE last_snapshot.seq
  /\ reqLog' = IF QFull(req_q, ReqQMaxsize) THEN reqLog ELSE Append(reqLog, last_snapshot.item)
  /\ reqSuperseded' = IF reqLast # 0 /\ reqLast \notin reqDequeued
                        THEN reqSuperseded \cup {reqLast} ELSE reqSuperseded
  /\ mpc' = "assets"
  /\ UNCHANGED <<pb_q, asset_q, pollerVars, fetcherVars, last_snapshot, last_seen_tid, cur_assets, tick, frames, staleRun, seenLog, drained, pbHist, asHist, reqDequeued, stopHist, lookupVars, pureVars>>

\* try: cur_assets = asset_q.get_nowait() except queue.Empty: pass
TakeAssets_Unpublished ==
  IF asset_q # <<>>
    THEN /\ cur_assets' = Head(asset_q)
         /\ asset_q' = Tail(asset_q)
         /\ asDelivered' = asDelivered \cup {Head(asset_q).seq}
    ELSE /\ cur_assets' = f_assets
         /\ UNCHANGED <<asset_q, asDelivered>>

TakeAssets ==
  IF asset_q # <<>>
    THEN /\ cur_assets' = Head(asset_q)
         /\ asset_q' = Tail(asset_q)
         /\ asDelivered' = asDelivered \cup {Head(asset_q).seq}
    ELSE UNCHANGED <<cur_assets, asset_q, asDelivered>>

\* if not item: DrawText("Nothing"); SwapOnVSync; time.sleep(0.25); continue
MainDrawNothing ==
  /\ mpc = "assets"
  /\ TakeAssets
  /\ last_snapshot.item = None
  /\ frames' = frames + 1
  /\ staleRun' = 0
  /\ mpc' = "drain_pb"
  /\ UNCHANGED <<pb_q, req_q, pollerVars, fetcherVars, last_snapshot, last_seen_tid, tick, seenLog, reqLog, drained, pbHist, asLast, asSuperseded, reqHist, pushFailed, stopHist, lookupVars, pureVars>>

\* art, title and lyric line of cur_assets; SwapOnVSync; tick += 1
MainDrawFrame ==
  /\ mpc = "assets"
  /\ TakeAssets
  /\ last_snapshot.item # None
  /\ frames' = frames + 1
  /\ tick' = tick + 1
  /\ staleRun' = IF cur_assets'.tid # None /\ cur_assets'.tid # SnapTid(last_snapshot)
                   THEN staleRun + 1 ELSE 0
  /\ mpc' = "drain_pb"
  /\ UNCHANGED <<pb_q, req_q, pollerVars, fetcherVars, last_snapshot, last_seen_tid, seenLog, reqLog, drained, pbHist, asLast, asSuperseded, reqHist, pushFailed, stopHist, lookupVars, pureVars>>

\* except KeyboardInterrupt: pass -- raised anywhere inside the loop;
\* finally: poller.stop()
MainInterrupt ==
  /\ mpc \in MainLoopPcs
  /\ p_stop' = TRUE
  /\ cycleAtStop' = (ppc \in PollerLoopPcs)
  /\ mpc' = "stop_fetcher"
  /\ UNCHANGED <<queueVars, ppc, snap, polls, pollResult, fetcherVars, last_snapshot, last_seen_tid, cur_assets, tick, frameVars, pbHist, asHist, reqHist, pushFailed, pubAfterStop, lookupVars, pureVars>>

\* finally: fetcher.stop()
MainStopFetcher ==
  /\ mpc = "stop_fetcher"
  /\ f_stop' = TRUE
  /\ mpc' = "exit"
  /\ UNCHANGED <<queueVars, pollerVars, fpc, f_item, f_assets, last_snapshot, last_seen_tid, cur_assets, tick, frameVars, pbHist, asHist, reqHist, pushFailed, stopHist, lookupVars, pureVars>>

Main ==
  \/ MainDrainPb \/ MainTrack \/ MainDrainReq \/ MainPutReq
  \/ MainDrawNothing \/ MainDrawFrame
  \/ MainInterrupt \/ MainStopFetcher

\* ------------------------------------------------------------ the system
\* state after "Queues & threads" and "Live state" in main()
InitWorkers ==
  /\ pb_q = <<>> /\ req_q = <<>> /\ asset_q = <<>>
  /\ ppc = "check" /\ p_stop = FALSE /\ snap = PlaybackSnapshot(None, 0)
  /\ polls = 0 /\ pollResult = "none"
  /\ fpc = "check" /\ f_stop = FALSE /\ f_item = Request(None, 0)
  /\ f_assets = TrackAssets(None, 0)
  /\ mpc = "drain_pb" /\ last_seen_tid = None
  /\ frames = 0 /\ staleRun = 0 /\ seenLog = <<>> /\ reqLog = <<>> /\ drained = FALSE
  /\ pbLast = 0 /\ pbDelivered = {} /\ pbSuperseded = {}
  /\ asLast = 0 /\ asDelivered = {} /\ asSuperseded = {}
  /\ reqLast = 0 /\ reqDequeued = {} /\ reqSuperseded = {}
  /\ pushFailed = {} /\ pubAfterStop = 0 /\ cycleAtStop = FALSE

InitSystem ==
  /\ InitWorkers
  /\ last_snapshot = PlaybackSnapshot(None, 0)
  /\ cur_assets = TrackAssets(None, 0)
  /\ tick = 0

\* the variables of current_line_index while no lookup runs
IdleLookup ==
  /\ lrc = <<>> /\ t = 0 /\ lo = 0 /\ hi = 0 /\ ans = 0 /\ lpc = "idle"

\* the clock and the locals of a frame while the frame is not computed
IdleRender ==
  /\ now = 0 /\ lrc_offset_ms = 0 /\ rpc = "idle"
  /\ progress_ms = 0 /\ t_ms = 0 /\ line_now = None /\ shown = <<>>

\* the variables of the functions checked on their own, while they do not run
IdleParse ==
  /\ lrc_text = <<>> /\ raw_lines = <<>> /\ out = <<>> /\ parse_pc = "idle"

IdleMarquee ==
  /\ mq_text = <<>> /\ mq_max = 1 /\ mq_cps = 1 /\ mq_gap = 1 /\ mq_tick = 0
  /\ mq_out = <<>> /\ mq_pc = "idle"

\* the locals of Fetcher.run's downloads while no request is processed
IdleFetch ==
  /\ aurl = None /\ img_i = 0 /\ img_tries = <<>> /\ lyr_reply = <<>>

IdlePure == IdleParse /\ IdleMarquee /\ IdleFetch

Init ==
  /\ InitSystem
  /\ IdleLookup
  /\ IdleRender
  /\ IdlePure

Next == Poller \/ Fetcher \/ Main

Spec == Init /\ [][Next]_vars

\* ------------------------------------------------------------ current_line_index
\* A timeline is the sequence of the timestamps of its LyricLines; parse_lrc
\* returns it sorted ascending.  Indices are the 0-based indices of the code.
SortedTimelines ==
  { s \in UNION { [1..n -> 0..MaxTs] : n \in 0..MaxLen } :
      \A i \in 1..Len(s) : \A j \in i..Len(s) : s[i] <= s[j] }

QueryTimes == (0 - 1)..(MaxTs + 1)

\* if not lrc: return -1;  lo, hi, ans = 0, len(lrc) - 1, -1
LookupStart ==
  /\ lpc = "start"
  /\ IF lrc = <<>>
       THEN ans' = 0 - 1 /\ lpc' = "done" /\ UNCHANGED <<lo, hi>>
       ELSE lo' = 0 /\ hi' = Len(lrc) - 1 /\ ans' = 0 - 1 /\ lpc' = "loop"
  /\ UNCHANGED <<lrc, t, queueVars, pollerVars, fetcherVars, mainVars, frameVars, pbHist, asHist, reqHist, pushFailed, stopHist, pureVars>>

\* while lo <= hi: mid = (lo + hi) // 2; if lrc[mid].t <= t: ... else: ...
LookupStep_Strict ==
  /\ lpc = "loop"
  /\ lo <= hi
  /\ LET mid == (lo + hi) \div 2 IN
       IF lrc[mid + 1] < t
         THEN ans' = mid /\ lo' = mid + 1 /\ hi' = hi
         ELSE hi' = mid - 1 /\ UNCHANGED <<ans, lo>>
  /\ UNCHANGED <<lrc, t, lpc, queueVars, pollerVars, fetcherVars, mainVars, frameVars, pbHist, asHist, reqHist, pushFailed, stopHist, pureVars>>

LookupStep ==
  /\ lpc = "loop"
  /\ lo <= hi
  /\ LET mid == (lo + hi) \div 2 IN
       IF lrc[mid + 1] <= t
         THEN ans' = mid /\ lo' = mid + 1 /\ hi' = hi
         ELSE hi' = mid - 1 /\ UNCHANGED <<ans, lo>>
  /\ UNCHANGED <<lrc, t, lpc, queueVars, pollerVars, fetcherVars, mainVars, frameVars, pbHist, asHist, reqHist, pushFailed, stopHist, pureVars>>

\* return ans
LookupReturn ==
  /\ lpc = "loop"
  /\ lo > hi
  /\ lpc' = "done"
  /\ UNCHANGED <<lrc, t, lo, hi, ans, queueVars, pollerVars, fetcherVars, mainVars, frameVars, pbHist, asHist, reqHist, pushFailed, stopHist, pureVars>>

InitLookup ==
  /\ InitSystem
  /\ IdleRender
  /\ IdlePure
  /\ lrc \in SortedTimelines
  /\ t \in QueryTimes
  /\ lo = 0 /\ hi = 0 /\ ans = 0 /\ lpc = "start"

NextLookup == LookupStart \/ LookupStep \/ LookupReturn

SpecLookup == InitLookup /\ [][NextLookup]_vars

\* ------------------------------------------------------------ float arithmetic
\* Python's float is the IEEE-754 binary64 format: every operation returns
\* the exact result rounded to 53 significant bits, ties to even.  A float
\* is modelled exactly, as [m, e] standing for m * 2^e, with m a sequence of
\* bits, least significant first, because a 53-bit integer is wider than a
\* model integer.  Operands are non-negative and below 2^15, and no result
\* leaves the normal range, as in the program.

\* significant bits of a float
MantissaBits == 53
\* fraction bits a division computes before its result is rounded
QuotientShift == 64
\* bits of a limb of the long multiplication
LimbBits == 15

RECURSIVE BitsValue(_)
\* the integer a bit sequence stands for
BitsValue(b) == IF b = <<>> THEN 0 ELSE Head(b) + 2 * BitsValue(Tail(b))

\* drop the zeros at the most significant end
Strip(b) ==
  LET ones == {i \in 1..Len(b) : b[i] = 1} IN
  IF ones = {} THEN <<>>
  ELSE SubSeq(b, 1, CHOOSE i \in ones : \A j \in ones : j <= i)

\* b + 1
Increment(b) ==
  LET zeros == {i \in 1..Len(b) : b[i] = 0}
      z == IF zeros = {} THEN Len(b) + 1 ELSE CHOOSE i \in zeros : \A j \in zeros : i <= j
  IN [i \in 1..(IF z > Len(b) THEN z ELSE Len(b)) |->
        IF i < z THEN 0 ELSE IF i = z THEN 1 ELSE b[i]]

\* the float nearest to b * 2^e (+ a nonzero part below the last bit when
\* sticky), ties to even
RoundToFloat(b, e, sticky) ==
  LET k == Len(b) - MantissaBits IN
  IF k <= 0 THEN [m |-> b, e |-> e]
  ELSE LET kept == SubSeq(b, k + 1, Len(b))
           guard == b[k] = 1
           rest == sticky \/ \E i \in 1..(k - 1) : b[i] = 1
           up == guard /\ (rest \/ kept[1] = 1)
       IN [m |-> IF up THEN Increment(kept) ELSE kept, e |-> e + k]

RECURSIVE PowMod(_, _)
\* 2^n modulo d
PowMod(n, d) ==
  IF n = 0 THEN 1 % d
  ELSE LET h == PowMod(n \div 2, d) IN
       IF n % 2 = 0 THEN (h * h) % d ELSE (2 * h * h) % d

\* bit i (1 is the least significant) of floor(a * 2^QuotientShift / b)
QuotientBit(a, b, i) ==
  IF i <= QuotientShift + 1
  THEN IF (a * PowMod(QuotientShift + 1 - i, 2 * b)) % (2 * b) >= b THEN 1 ELSE 0
  ELSE ((a \div 2^(i - 1 - QuotientShift)) \div b) % 2

\* float(a) / float(b) for integers a >= 0 and b > 0
FloatDiv(a, b) ==
  LET q == [i \in 1..(QuotientShift + LimbBits) |-> QuotientBit(a, b, i)]
      r == (a * PowMod(QuotientShift, b)) % b
  IN RoundToFloat(Strip(q), 0 - QuotientShift, r # 0)

\* limb i of a bit sequence
Limb(b, i) ==
  BitsValue(SubSeq(b, LimbBits * (i - 1) + 1,
                   IF LimbBits * i < Len(b) THEN LimbBits * i ELSE Len(b)))

RECURSIVE TimesLimbs(_, _, _, _)
\* the limbs of b * n + carry, from limb i on
TimesLimbs(b, n, i, carry) ==
  IF LimbBits * (i - 1) >= Len(b) THEN <<carry>>
  ELSE LET v == Limb(b, i) * n + carry
       IN <<v % 2^LimbBits>> \o TimesLimbs(b, n, i + 1, v \div 2^LimbBits)

\* the bits of b * n
TimesInt(b, n) ==
  LET limbs == TimesLimbs(b, n, 1, 0)
  IN Strip([j \in 1..(LimbBits * Len(limbs)) |->
              (limbs[((j - 1) \div LimbBits) + 1] \div 2^((j - 1) % LimbBits)) % 2])

\* x * float(n) for a float x >= 0 and an integer n >= 0
FloatMulInt(x, n) == RoundToFloat(TimesInt(x.m, n), x.e, FALSE)

\* x / 2
FloatHalf(x) == [m |-> x.m, e |-> x.e - 1]

\* int(x) for a float x >= 0: the fraction is dropped
FloatTrunc(x) ==
  IF x.e >= 0 THEN BitsValue(x.m) * 2^x.e
  ELSE IF 0 - x.e >= Len(x.m) THEN 0
  ELSE BitsValue(SubSeq(x.m, 1 - x.e, Len(x.m)))

\* ------------------------------------------------------------ a frame of main()
\* The part of the render loop that computes a frame, with the data it is
\* computed from: the fields of the snapshot, the wall clock, and the art,
\* lyrics and names of the current assets.  The workers are replaced by the
\* values they hand over.  The clock counts microseconds; progress, lyric
\* timestamps and LRC_OFFSET are in milliseconds.

\* target_fps = 30.0
TargetFps == 30

\* what sp.current_user_playing_track() can return
\* (body FALSE: it returned None)
Responses ==
  [body : BOOLEAN, item : {None} \cup Tracks, is_playing : BOOLEAN, progress_ms : {0, 10000}]

\* the PlaybackSnapshot that Poller.run builds from the response pb at time ts
PollSnapshot(pb, ts) ==
  IF pb.body /\ pb.item # None
    THEN [item |-> pb.item, is_playing |-> pb.is_playing,
          progress_ms |-> pb.progress_ms, ts |-> ts]
    ELSE [item |-> None, is_playing |-> FALSE, progress_ms |-> 0, ts |-> ts]

\* LyricLine(t, text), t in milliseconds
LyricLine(time, text) == [t |-> time, text |-> text]

\* the timeline of a track: "la la" from 0 s, "second line" from 4 s
SyncedTimeline == <<LyricLine(0, "la la"), LyricLine(4000, "second line")>>

\* an optional list: None is Unset, the list x is Some(x)
Unset == <<>>
Some(x) == <<x>>

\* the (lrc, plain_lines) pairs that Fetcher.run can store in its assets
FetchedLyrics ==
  { <<SyncedTimeline, Unset>>, << <<>>, Some(<<"plain one", "plain two">>) >>, << <<>>, Unset >> }

\* TrackAssets()
NewTrackAssets ==
  [tid |-> None, album_img |-> None, lrc |-> <<>>, plain_lines |-> Unset,
   title |-> "", artists |-> ""]

\* the TrackAssets a frame can find: what Fetcher.run fills in
FrameAssets ==
  { [tid |-> "A", album_img |-> img, lrc |-> ly[1], plain_lines |-> ly[2],
     title |-> "Song", artists |-> "Band"] :
    img \in {None, "cover"}, ly \in FetchedLyrics }

\* the time.time() differences between two looks at the clock
ClockSteps == {1499500, 1500000, 2500000}

\* values of tick at which frames are computed
StartTicks == {0, 59, 119}
DrawTicks == UNION { s..(s + MaxFrames - 1) : s \in StartTicks }

notRenderVars == <<queueVars, pollerVars, fetcherVars, mpc, last_seen_tid, frameVars, pbHist, asHist, reqHist, pushFailed, stopHist, lookupVars, parseVars, marqueeVars, fetchVars>>

RECURSIVE BinarySearch(_, _, _, _, _)
\* the while loop of current_line_index
BinarySearch(timeline, time, l, h, a) ==
  IF l > h THEN a
  ELSE LET mid == (l + h) \div 2 IN
       IF timeline[mid + 1].t <= time
         THEN BinarySearch(timeline, time, mid + 1, h, mid)
         ELSE BinarySearch(timeline, time, l, mid - 1, a)

current_line_index_Strict(timeline, time) ==
  IF timeline = <<>> THEN 0 - 1
  ELSE BinarySearch(timeline, time - 1, 0, Len(timeline) - 1, 0 - 1)

\* current_line_index(lrc, t), 0-based, -1 when no line has started
current_line_index(timeline, time) ==
  IF timeline = <<>> THEN 0 - 1
  ELSE BinarySearch(timeline, time, 0, Len(timeline) - 1, 0 - 1)

PlainWhich_NoDwell(k, n) == FloatTrunc(FloatDiv(k, TargetFps)) % n

\* int((tick / target_fps) / 2) % len(plain_lines)
PlainWhich(k, n) == FloatTrunc(FloatHalf(FloatDiv(k, TargetFps))) % n

\* a poll result is drained into last_snapshot
RenderSnapshot ==
  /\ rpc = "input"
  /\ \E pb \in Responses : last_snapshot' = PollSnapshot(pb, now)
  /\ UNCHANGED <<cur_assets, tick, renderVars, notRenderVars>>

\* cur_assets = asset_q.get_nowait()
RenderAssets ==
  /\ rpc = "input"
  /\ \E a \in FrameAssets : cur_assets' = a
  /\ UNCHANGED <<last_snapshot, tick, renderVars, notRenderVars>>

\* time passes
ClockAdvance ==
  /\ rpc = "input"
  /\ \E d \in ClockSteps : now + d <= MaxNow /\ now' = now + d
  /\ UNCHANGED <<last_snapshot, cur_assets, tick, lrc_offset_ms, rpc, progress_ms, t_ms, line_now, shown, notRenderVars>>

\* if item and is_playing: elapsed_ms = int((time.time() - ts) * 1000.0) ...
Progress_IgnoresPaused(s, clock) == s.progress_ms + ((clock - s.ts) \div 1000)

Progress(s, clock) ==
  IF s.item # None /\ s.is_playing
    THEN s.progress_ms + ((clock - s.ts) \div 1000)
    ELSE IF s.item # None THEN s.progress_ms ELSE 0

\* if not item: DrawText("Nothing"); SwapOnVSync(canvas)
RenderNothing ==
  /\ rpc = "input"
  /\ last_snapshot.item = None
  /\ progress_ms' = Progress(last_snapshot, now)
  /\ t_ms' = progress_ms' + lrc_offset_ms
  /\ line_now' = None
  /\ shown' = <<[text |-> "Nothing"]>>
  /\ rpc' = "shown"
  /\ UNCHANGED <<last_snapshot, cur_assets, tick, now, lrc_offset_ms, notRenderVars>>

\* the line under the title: the lyric of the moment, a plain line, or the
\* artists
LineNow(a, time, k) ==
  IF a.lrc # <<>>
    THEN LET idx == current_line_index(a.lrc, time)
         IN IF idx >= 0 THEN a.lrc[idx + 1].text ELSE a.artists
    ELSE IF a.plain_lines # Unset /\ a.plain_lines[1] # <<>>
      THEN a.plain_lines[1][PlainWhich(k, Len(a.plain_lines[1])) + 1]
      ELSE a.artists

AlbumArt_NoPlaceholder(a) == IF a.album_img # None THEN "image" ELSE "blank"

\* if cur_assets.album_img: blit_pillow(...) else: draw_rect(...)
AlbumArt(a) == IF a.album_img # None THEN "image" ELSE "outline"

\* album art or outline, title, lyric line; SwapOnVSync(canvas).  The text
\* that reaches DrawText is marquee_slice_tick of title and line.
RenderFrame ==
  /\ rpc = "input"
  /\ last_snapshot.item # None
  /\ tick \in DrawTicks
  /\ progress_ms' = Progress(last_snapshot, now)
  /\ t_ms' = progress_ms' + lrc_offset_ms
  /\ line_now' = LineNow(cur_assets, t_ms', tick)
  /\ shown' = <<[art |-> AlbumArt(cur_assets),
                 title |-> IF cur_assets.title # "" THEN cur_assets.title ELSE "(untitled)",
                 line |-> line_now']>>
  /\ rpc' = "shown"
  /\ UNCHANGED <<last_snapshot, cur_assets, tick, now, lrc_offset_ms, notRenderVars>>

\* tick += 1 and the frame pacing after a track frame, time.sleep(0.25) and
\* continue after "Nothing"; the next iteration starts with its locals unset
RenderPace ==
  /\ rpc = "shown"
  /\ tick' = IF shown = <<[text |-> "Nothing"]>> THEN tick ELSE tick + 1
  /\ progress_ms' = 0 /\ t_ms' = 0 /\ line_now' = None /\ shown' = <<>>
  /\ rpc' = "input"
  /\ UNCHANGED <<last_snapshot, cur_assets, now, lrc_offset_ms, notRenderVars>>

InitRender ==
  /\ InitWorkers
  /\ IdleLookup
  /\ IdlePure
  /\ last_snapshot = PollSnapshot([body |-> FALSE, item |-> None, is_playing |-> FALSE, progress_ms |-> 0], 0)
  /\ cur_assets = NewTrackAssets
  /\ tick \in StartTicks
  /\ now = 0
  /\ lrc_offset_ms \in {0 - 1000, 0}
  /\ rpc = "input"
  /\ progress_ms = 0 /\ t_ms = 0 /\ line_now = None /\ shown = <<>>

NextRender ==
  \/ RenderSnapshot \/ RenderAssets \/ ClockAdvance
  \/ RenderNothing \/ RenderFrame \/ RenderPace

SpecRender == InitRender /\ [][NextRender]_vars

\* ------------------------------------------------------------ parse_lrc
\* A text is a sequence of tokens: "\n", "[", "]", ":", " " (white space),
\* numerals and words.  A numeral or a word is one token, and no line has two
\* of them side by side, so int() and float() see whole numerals.  A parsed
\* timestamp is [nan, ms]: float("nan"), or a number of milliseconds.

\* numerals int() accepts, with their values
IntLiteral == [n \in {"00", "01"} |-> IF n = "00" THEN 0 ELSE 1]

\* numerals float() accepts, with their values
FloatLiteral ==
  [n \in {"00", "01", "00.00", "04.00", "nan"} |->
     IF n = "nan" THEN [nan |-> TRUE, ms |-> 0]
     ELSE [nan |-> FALSE,
           ms |-> IF n = "04.00" THEN 4000 ELSE IF n = "01" THEN 1000 ELSE 0]]

\* the lines an LRC text is made of
RawLines ==
  { <<"[", "00", ":", "00.00", "]", "la la">>,
    <<"[", "00", ":", "04.00", "]", "second line">>,
    <<"[", "00", ":", "04.00", "]", "other">>,
    <<"[", "00", ":", "04.00", "]", "[", "00", ":", "00.00", "]", "twice">>,
    <<" ", "[", "01", ":", "00.00", "]", "late", " ">>,
    <<"[", "xx", ":", "00.00", "]", "bad">>,
    <<"[", "00.00", "]", "short">>,
    <<"[", "00", ":", "nan", "]", "oops">>,
    <<"no tag">>,
    <<" ">> }

RECURSIVE JoinLines(_)
\* the text with the given lines
JoinLines(ls) ==
  IF ls = <<>> THEN <<>>
  ELSE IF Len(ls) = 1 THEN ls[1]
  ELSE ls[1] \o <<"\n">> \o JoinLines(Tail(ls))

LrcTexts == { JoinLines(ls) : ls \in UNION { [1..n -> RawLines] : n \in 0..MaxLines } }

RECURSIVE SplitOn(_, _)
\* str.split(sep)
SplitOn(s, sep) ==
  LET at == {i \in 1..Len(s) : s[i] = sep} IN
  IF at = {} THEN <<s>>
  ELSE LET i == CHOOSE k \in at : \A j \in at : k <= j
       IN <<SubSeq(s, 1, i - 1)>> \o SplitOn(SubSeq(s, i + 1, Len(s)), sep)

\* str.splitlines()
SplitLines(s) ==
  IF s = <<>> THEN <<>>
  ELSE LET ps == SplitOn(s, "\n")
       IN IF ps[Len(ps)] = <<>> THEN SubSeq(ps, 1, Len(ps) - 1) ELSE ps

\* str.strip()
StripSpaces(s) ==
  LET at == {i \in 1..Len(s) : s[i] # " "} IN
  IF at = {} THEN <<>>
  ELSE SubSeq(s, CHOOSE k \in at : \A j \in at : k <= j,
                 CHOOSE k \in at : \A j \in at : j <= k)

\* int(m) does not raise
IsInt(m) == LET w == StripSpaces(m) IN Len(w) = 1 /\ w[1] \in DOMAIN IntLiteral
\* float(s) does not raise
IsFloat(s) == LET w == StripSpaces(s) IN Len(w) = 1 /\ w[1] \in DOMAIN FloatLiteral

\* int(m) * 60 + float(s)
TagTime(m, s) ==
  LET mv == IntLiteral[StripSpaces(m)[1]]
      sv == FloatLiteral[StripSpaces(s)[1]]
  IN IF sv.nan THEN sv ELSE [nan |-> FALSE, ms |-> mv * 60000 + sv.ms]

RECURSIVE TagEntries(_, _)
\* for p in parts[:-1]: the LyricLines appended for the parts given
TagEntries(parts, lyric) ==
  IF parts = <<>> THEN <<>>
  ELSE LET p == Head(parts)
           tag == Tail(p)
           ms == SplitOn(tag, ":")
           entry == IF p # <<>> /\ p[1] = "[" /\ Len(ms) = 2 /\ IsInt(ms[1]) /\ IsFloat(ms[2])
                      THEN <<LyricLine(TagTime(ms[1], ms[2]), lyric)>>
                      ELSE <<>>
       IN entry \o TagEntries(Tail(parts), lyric)

\* the LyricLines one raw line appends to out
LineEntries(raw) ==
  LET parts == SplitOn(raw, "]")
  IN IF StripSpaces(raw) = <<>> THEN <<>>
     ELSE TagEntries(SubSeq(parts, 1, Len(parts) - 1), StripSpaces(parts[Len(parts)]))

\* a < b on floats
FloatLess(a, b) == ~a.nan /\ ~b.nan /\ a.ms < b.ms

RECURSIVE InsertSorted(_, _)
\* x put behind the last entry that is not later than x
InsertSorted(s, x) ==
  IF s # <<>> /\ FloatLess(x.t, s[Len(s)].t)
    THEN Append(InsertSorted(SubSeq(s, 1, Len(s) - 1), x), s[Len(s)])
    ELSE Append(s, x)

RECURSIVE StableSort(_)
\* the stable ascending sort by t
StableSort(s) ==
  IF s = <<>> THEN <<>>
  ELSE InsertSorted(StableSort(SubSeq(s, 1, Len(s) - 1)), s[Len(s)])

RECURSIVE Reorderings(_)
Reorderings(s) ==
  IF s = <<>> THEN {<<>>}
  ELSE UNION { { <<s[i]>> \o p :
                 p \in Reorderings(SubSeq(s, 1, i - 1) \o SubSeq(s, i + 1, Len(s))) } :
               i \in 1..Len(s) }

\* what out.sort(key=lambda a: a.t) can leave in out: the stable sort when
\* the keys are ordered, and some order of the entries when a key is nan,
\* which compares false with every key
SortOutcomes(s) ==
  IF \E i \in 1..Len(s) : s[i].t.nan THEN Reorderings(s) ELSE {StableSort(s)}

notParseVars == <<queueVars, pollerVars, fetcherVars, mainVars, frameVars, pbHist, asHist, reqHist, pushFailed, stopHist, lookupVars, renderVars, marqueeVars, fetchVars>>

\* out = []; text.splitlines()
ParseStart ==
  /\ parse_pc = "start"
  /\ raw_lines' = SplitLines(lrc_text)
  /\ out' = <<>>
  /\ parse_pc' = "lines"
  /\ UNCHANGED <<lrc_text, notParseVars>>

\* one iteration of: for raw in text.splitlines()
ParseLine ==
  /\ parse_pc = "lines"
  /\ raw_lines # <<>>
  /\ out' = out \o LineEntries(Head(raw_lines))
  /\ raw_lines' = Tail(raw_lines)
  /\ UNCHANGED <<lrc_text, parse_pc, notParseVars>>

\* out.sort(key=lambda a: a.t); return out
ParseSort ==
  /\ parse_pc = "lines"
  /\ raw_lines = <<>>
  /\ out' \in SortOutcomes(out)
  /\ parse_pc' = "done"
  /\ UNCHANGED <<lrc_text, raw_lines, notParseVars>>

InitParse ==
  /\ InitSystem
  /\ IdleLookup
  /\ IdleRender
  /\ IdleMarquee
  /\ IdleFetch
  /\ lrc_text \in LrcTexts
  /\ raw_lines = <<>> /\ out = <<>> /\ parse_pc = "start"

NextParse == ParseStart \/ ParseLine \/ ParseSort

SpecParse == InitParse /\ [][NextParse]_vars

\* ------------------------------------------------------------ marquee_slice_tick
\* A text is the sequence of its characters.

\* the texts drawn: the first 1..MaxText letters
Letters == <<"a", "b", "c", "d", "e", "f", "g", "h">>
MarqueeTexts == { SubSeq(Letters, 1, n) : n \in 1..MaxText }

\* max_title_chars, max_lyric_chars = max(1, right_w // char width)
MaxCharsValues == 1..3
\* GAP = max(1, env_int("GAP_CHARS", 3))
GapValues == 1..3
\* TITLE_CPS, LYRIC_CPS = max(1, env_int(...)); the defaults are 3 and 6
CpsValues == {1, 3, 4, 6, 11}
\* ticks at which a run of frames is looked at
MarqueeStartTicks == {0, 149}

\* " " * gap
Spaces(n) == [i \in 1..n |-> " "]

marquee_slice_tick_ModLen(text, max_chars, k, cps, gap, fps) ==
  IF Len(text) <= max_chars THEN text
  ELSE LET step_per_frame == FloatDiv(cps, fps)
           offset == FloatTrunc(FloatMulInt(step_per_frame, k)) % Len(text)
           loop == text \o Spaces(gap) \o text
       IN SubSeq(loop, offset + 1,
                 IF offset + max_chars < Len(loop) THEN offset + max_chars ELSE Len(loop))

\* marquee_slice_tick(text, max_chars, tick, cps, gap, fps)
marquee_slice_tick(text, max_chars, k, cps, gap, fps) ==
  IF Len(text) <= max_chars THEN text
  ELSE LET step_per_frame == FloatDiv(cps, fps)
           offset == FloatTrunc(FloatMulInt(step_per_frame, k)) % (Len(text) + gap)
           loop == text \o Spaces(gap) \o text
       IN SubSeq(loop, offset + 1,
                 IF offset + max_chars < Len(loop) THEN offset + max_chars ELSE Len(loop))

notMarqueeVars == <<queueVars, pollerVars, fetcherVars, mainVars, frameVars, pbHist, asHist, reqHist, pushFailed, stopHist, lookupVars, renderVars, parseVars, fetchVars>>

\* a frame calls marquee_slice_tick with its tick
MarqueeCall ==
  /\ mq_pc = "call"
  /\ mq_out' = marquee_slice_tick(mq_text, mq_max, mq_tick, mq_cps, mq_gap, TargetFps)
  /\ mq_pc' = "done"
  /\ UNCHANGED <<mq_text, mq_max, mq_cps, mq_gap, mq_tick, notMarqueeVars>>

\* tick += 1, and the next frame
MarqueeNextFrame ==
  /\ mq_pc = "done"
  /\ \E s \in MarqueeStartTicks : s <= mq_tick /\ mq_tick + 1 < s + MaxFrames
  /\ mq_tick' = mq_tick + 1
  /\ mq_pc' = "call"
  /\ UNCHANGED <<mq_text, mq_max, mq_cps, mq_gap, mq_out, notMarqueeVars>>

InitMarquee ==
  /\ InitSystem
  /\ IdleLookup
  /\ IdleRender
  /\ IdleParse
  /\ IdleFetch
  /\ mq_text \in MarqueeTexts
  /\ mq_max \in MaxCharsValues
  /\ mq_cps \in CpsValues
  /\ mq_gap \in GapValues
  /\ mq_tick \in MarqueeStartTicks
  /\ mq_out = <<>> /\ mq_pc = "call"

NextMarquee == MarqueeCall \/ MarqueeNextFrame

SpecMarquee == InitMarquee /\ [][NextMarquee]_vars

\* ------------------------------------------------------------ Fetcher.run in detail
\* The downloads of one request, step by step: each remote call is one
\* step.  main() is reduced to what the Fetcher sees of it: a request for a
\* new track, the pick-up of published assets, and the stop.

\* for i in range(2)
ImageAttempts == 2

\* max(32, self.album_side), ALBUM_SIDE = 28
AlbumSide == 28
ArtTarget == IF AlbumSide > 32 THEN AlbumSide ELSE 32

\* the track dicts: "A" has album images, "B" (a local file) has none
ItemName(item) == IF item = "A" THEN "Song" ELSE "Tape"
ItemArtists(item) == IF item = "A" THEN "Band, Guest" ELSE ""
ItemImages(item) ==
  IF item = "A"
    THEN << [width |-> 640, url |-> "a640"], [width |-> 64, url |-> "a64"] >>
    ELSE << >>

Distance(a, b) == IF a >= b THEN a - b ELSE b - a

\* aurl = None; if imgs: min(imgs, key=|width - target|).get("url")
AlbumUrl(imgs) ==
  IF imgs = <<>> THEN None
  ELSE LET d(i) == Distance(imgs[i].width, ArtTarget)
           best == CHOOSE i \in 1..Len(imgs) :
                     /\ \A j \in 1..Len(imgs) : d(i) <= d(j)
                     /\ \A j \in 1..(i - 1) : d(j) > d(i)
       IN imgs[best].url

\* the texts lrclib can hold for a track; <<>> is a missing or empty field
SyncedTexts ==
  { <<>>,
    <<" ", "\n">>,
    <<"no tag">>,
    <<"\n", "[", "00", ":", "04.00", "]", "second line", "\n",
      "[", "00", ":", "00.00", "]", "la la", "\n">> }
PlainTexts == { <<>>, <<" ", "plain one", "\n", " ", "\n", "plain two", " ", "\n">> }

\* what requests.get of the lyrics service can end in: an exception, or a
\* response with a status code and the two fields of its JSON body
LyricsReplies ==
  { [raised |-> TRUE, status |-> 0, synced |-> <<>>, plain |-> <<>>],
    [raised |-> FALSE, status |-> 404, synced |-> <<>>, plain |-> <<>>] }
  \cup { [raised |-> FALSE, status |-> 200, synced |-> sy, plain |-> pl] :
         sy \in SyncedTexts, pl \in PlainTexts }

\* str.strip() of a text of several lines
StripWhite(s) ==
  LET at == {i \in 1..Len(s) : s[i] \notin {" ", "\n"}} IN
  IF at = {} THEN <<>>
  ELSE SubSeq(s, CHOOSE k \in at : \A j \in at : k <= j,
                 CHOOSE k \in at : \A j \in at : j <= k)

RECURSIVE ParsedEntries(_)
\* the entries parse_lrc appends for the given lines, in order
ParsedEntries(lines) ==
  IF lines = <<>> THEN <<>>
  ELSE LineEntries(Head(lines)) \o ParsedEntries(Tail(lines))

\* the lists parse_lrc(text) can return
parse_lrc(text) == SortOutcomes(ParsedEntries(SplitLines(text)))

\* the (lrc, plain) pairs fetch_lyrics can return for a reply; the plain
\* text <<>> stands for None: the caller only tests "if plain"
fetch_lyrics_KeepsPlain(r) ==
  IF ~r.raised /\ r.status = 200
    THEN LET synced == StripWhite(r.synced)
             plain == StripWhite(r.plain)
         IN IF synced # <<>> THEN { <<l, plain>> : l \in parse_lrc(synced) }
            ELSE IF plain # <<>> THEN { << <<>>, plain >> }
            ELSE { << <<>>, <<>> >> }
    ELSE { << <<>>, <<>> >> }

fetch_lyrics(r) ==
  IF ~r.raised /\ r.status = 200
    THEN LET synced == StripWhite(r.synced)
             plain == StripWhite(r.plain)
         IN IF synced # <<>> THEN { <<l, <<>> >> : l \in parse_lrc(synced) }
            ELSE IF plain # <<>> THEN { << <<>>, plain >> }
            ELSE { << <<>>, <<>> >> }
    ELSE { << <<>>, <<>> >> }

\* [ln.strip() for ln in plain.splitlines() if ln.strip()]
PlainLines(plain) ==
  LET lines == SplitLines(plain)
      stripped == [i \in 1..Len(lines) |-> StripSpaces(lines[i])]
      NonBlank(ln) == ln # <<>>
  IN SelectSeq(stripped, NonBlank)

\* the drained pb_q left a snapshot of another track: tid != last_seen_tid
MainNewTrack ==
  /\ mpc = "drain_pb"
  /\ last_snapshot.seq < MaxRequests
  /\ \E item \in Tracks \ {last_seen_tid} :
       /\ last_snapshot' = PlaybackSnapshot(item, last_snapshot.seq + 1)
       /\ last_seen_tid' = item
  /\ mpc' = "drain_req"
  /\ UNCHANGED <<queueVars, pollerVars, fetcherVars, cur_assets, tick, frameVars, pbHist, asHist, reqHist, pushFailed, stopHist, lookupVars, pureVars>>

\* the drained pb_q left the track unchanged: no request
MainSameTrack ==
  /\ mpc = "drain_pb"
  /\ mpc' = "assets"
  /\ UNCHANGED <<queueVars, pollerVars, fetcherVars, last_snapshot, last_seen_tid, cur_assets, tick, frameVars, pbHist, asHist, reqHist, pushFailed, stopHist, lookupVars, pureVars>>

\* try: cur_assets = asset_q.get_nowait() except queue.Empty: pass
MainTake ==
  /\ mpc = "assets"
  /\ TakeAssets
  /\ mpc' = "drain_pb"
  /\ UNCHANGED <<pb_q, req_q, pollerVars, fetcherVars, last_snapshot, last_seen_tid, tick, frameVars, pbHist, asLast, asSuperseded, reqHist, pushFailed, stopHist, lookupVars, pureVars>>

\* item = self.in_q.get(timeout=0.5); assets = TrackAssets(); tid, title,
\* artists; aurl is chosen; without aurl album_img is None at once
FetchGet ==
  /\ fpc = "check"
  /\ FetcherRunning
  /\ req_q # <<>>
  /\ f_item' = Head(req_q)
  /\ req_q' = Tail(req_q)
  /\ reqDequeued' = reqDequeued \cup {Head(req_q).seq}
  /\ LET item == Head(req_q).item IN
       /\ f_assets' = [tid |-> item, seq |-> Head(req_q).seq, album_img |-> None,
                       lrc |-> <<>>, plain_lines |-> Unset,
                       title |-> ItemName(item), artists |-> ItemArtists(item)]
       /\ aurl' = AlbumUrl(ItemImages(item))
  /\ img_i' = 0
  /\ img_tries' = <<>>
  /\ lyr_reply' = <<>>
  /\ fpc' = IF aurl' # None THEN "image" ELSE "lyrics"
  /\ UNCHANGED <<pb_q, asset_q, pollerVars, f_stop, mainVars, frameVars, pbHist, asHist, reqLast, reqSuperseded, pushFailed, stopHist, lookupVars, renderVars, parseVars, marqueeVars>>

\* the for loop of fetch_album_image is over
ImageLoopEnds_Thrice(i) == i >= ImageAttempts + 1

ImageLoopEnds(i) == i >= ImageAttempts

\* an attempt of fetch_album_image succeeds: return img
FetchImageOk ==
  /\ fpc = "image"
  /\ ~ImageLoopEnds(img_i)
  /\ img_tries' = Append(img_tries, "ok")
  /\ f_assets' = [f_assets EXCEPT !.album_img = "cover"]
  /\ fpc' = "lyrics"
  /\ UNCHANGED <<queueVars, pollerVars, f_stop, f_item, mainVars, frameVars, pbHist, asHist, reqHist, pushFailed, stopHist, lookupVars, renderVars, parseVars, marqueeVars, aurl, img_i, lyr_reply>>

\* an attempt raises: time.sleep(0.15) and the next i; after the last i
\* the function returns None
FetchImageFail ==
  /\ fpc = "image"
  /\ ~ImageLoopEnds(img_i)
  /\ img_tries' = Append(img_tries, "fail")
  /\ img_i' = img_i + 1
  /\ IF ImageLoopEnds(img_i + 1)
       THEN f_assets' = [f_assets EXCEPT !.album_img = None] /\ fpc' = "lyrics"
       ELSE f_assets' = f_assets /\ fpc' = "image"
  /\ UNCHANGED <<queueVars, pollerVars, f_stop, f_item, mainVars, frameVars, pbHist, asHist, reqHist, pushFailed, stopHist, lookupVars, renderVars, parseVars, marqueeVars, aurl, lyr_reply>>

\* lrc, plain = fetch_lyrics(...); assets.lrc = lrc; if plain: plain_lines
FetchLyrics ==
  /\ fpc = "lyrics"
  /\ \E r \in LyricsReplies : \E ly \in fetch_lyrics(r) :
       /\ lyr_reply' = Some(r)
       /\ f_assets' = [f_assets EXCEPT !.lrc = ly[1],
                         !.plain_lines = IF ly[2] # <<>> THEN Some(PlainLines(ly[2]))
                                         ELSE Unset]
  /\ fpc' = "drain"
  /\ UNCHANGED <<queueVars, pollerVars, f_stop, f_item, mainVars, frameVars, pbHist, asHist, reqHist, pushFailed, stopHist, lookupVars, renderVars, parseVars, marqueeVars, aurl, img_i, img_tries>>

InitFetch ==
  /\ InitSystem
  /\ IdleLookup
  /\ IdleRender
  /\ IdlePure

NextFetch ==
  \/ FetcherExit \/ FetcherIdle \/ FetchGet \/ FetchImageOk \/ FetchImageFail
  \/ FetchLyrics \/ FetcherDrain \/ FetcherPut
  \/ MainNewTrack \/ MainSameTrack \/ MainDrainReq \/ MainPutReq \/ MainTake
  \/ MainInterrupt \/ MainStopFetcher

SpecFetch == InitFetch /\ [][NextFetch]_vars

\* ------------------------------------------------------------ the stop flags
\* The workers with the test of the stop flag as a step of its own, so
\* that a worker can be inside its remote query, or waiting in
\* in_q.get(timeout=0.5), when stop() is called.  main() is reduced to what
\* the workers see of it: it empties pb_q, replaces the request, takes the
\* assets and calls stop() on both.

\* while not self._stop.is_set(): the flag is clear, the body begins
PollerPass ==
  /\ ppc = "check"
  /\ PollerRunning
  /\ ppc' = "query"
  /\ UNCHANGED <<queueVars, p_stop, snap, polls, pollResult, fetcherVars, mainVars, frameVars, pbHist, asHist, reqHist, pushFailed, stopHist, lookupVars, pureVars>>

\* pb = self.sp.current_user_playing_track() returns; snap is built
PollerQueryOk ==
  /\ ppc = "query"
  /\ polls < MaxCycles
  /\ \E item \in Tracks \cup {None} :
       snap' = PlaybackSnapshot(item, polls + 1)
  /\ polls' = polls + 1
  /\ pollResult' = IF pollResult = "fail" THEN "ok_after_fail" ELSE "ok"
  /\ ppc' = "drain"
  /\ UNCHANGED <<queueVars, p_stop, fetcherVars, mainVars, frameVars, pbHist, asHist, reqHist, pushFailed, stopHist, lookupVars, pureVars>>

\* the query raises: except Exception: pass; time.sleep(...)
PollerQueryFail ==
  /\ ppc = "query"
  /\ pollResult' = "fail"
  /\ ppc' = "check"
  /\ UNCHANGED <<queueVars, p_stop, snap, polls, fetcherVars, mainVars, frameVars, pbHist, asHist, reqHist, pushFailed, stopHist, lookupVars, pureVars>>

PollerSteps ==
  PollerExit \/ PollerPass \/ PollerQueryOk \/ PollerQueryFail \/ PollerDrain \/ PollerPut

\* while not self._stop.is_set(): the flag is clear, in_q.get begins
FetcherPass ==
  /\ fpc = "check"
  /\ FetcherRunning
  /\ fpc' = "get"
  /\ UNCHANGED <<queueVars, pollerVars, f_stop, f_item, f_assets, mainVars, frameVars, pbHist, asHist, reqHist, pushFailed, stopHist, lookupVars, pureVars>>

\* in_q.get(timeout=0.5) returns an item; album art and lyrics are
\* fetched, each remote call under timeout=6
FetcherTake ==
  /\ fpc = "get"
  /\ req_q # <<>>
  /\ f_item' = Head(req_q)
  /\ req_q' = Tail(req_q)
  /\ reqDequeued' = reqDequeued \cup {Head(req_q).seq}
  /\ f_assets' = TrackAssets(Head(req_q).item, Head(req_q).seq)
  /\ fpc' = "drain"
  /\ UNCHANGED <<pb_q, asset_q, pollerVars, f_stop, mainVars, frameVars, pbHist, asHist, reqLast, reqSuperseded, pushFailed, stopHist, lookupVars, pureVars>>

\* in_q.get(timeout=0.5) on an empty queue: queue.Empty after 0.5 s, continue
FetcherTimeout_Blocks ==
  /\ fpc = "get"
  /\ req_q = <<>>
  /\ fpc' = "get"
  /\ UNCHANGED <<queueVars, pollerVars, f_stop, f_item, f_assets, mainVars, frameVars, pbHist, asHist, reqHist, pushFailed, stopHist, lookupVars, pureVars>>

FetcherTimeout ==
  /\ fpc = "get"
  /\ req_q = <<>>
  /\ fpc' = "check"
  /\ UNCHANGED <<queueVars, pollerVars, f_stop, f_item, f_assets, mainVars, frameVars, pbHist, asHist, reqHist, pushFailed, stopHist, lookupVars, pureVars>>

FetcherSteps ==
  FetcherExit \/ FetcherPass \/ FetcherTake \/ FetcherTimeout \/ FetcherDrain \/ FetcherPut

\* except queue.Empty: break; the track test on the snapshot main() holds
MainTrackTest ==
  /\ mpc = "drain_pb"
  /\ pb_q = <<>>
  /\ IF TrackChanged(SnapTid(last_snapshot), last_seen_tid)
       THEN last_seen_tid' = SnapTid(last_snapshot) /\ mpc' = "drain_req"
       ELSE last_seen_tid' = last_seen_tid /\ mpc' = "assets"
  /\ UNCHANGED <<queueVars, pollerVars, fetcherVars, last_snapshot, cur_assets, tick, frameVars, pbHist, asHist, reqHist, pushFailed, stopHist, lookupVars, pureVars>>

MainSteps ==
  \/ MainDrainPb \/ MainTrackTest \/ MainDrainReq \/ MainPutReq \/ MainTake
  \/ MainInterrupt \/ MainStopFetcher

InitStop ==
  /\ InitSystem
  /\ IdleLookup
  /\ IdleRender
  /\ IdlePure

NextStop == PollerSteps \/ FetcherSteps \/ MainSteps

\* Each thread is an operating-system thread: one that can run is run in
\* the end; every remote call and every wait carries a timeout.
FairStop == WF_vars(PollerSteps) /\ WF_vars(FetcherSteps) /\ WF_vars(MainSteps)

SpecStop == InitStop /\ [][NextStop]_vars /\ FairStop

\* ============================================================ properties

\* C1: in every reachable state each of the three channels (snapshot
\* channel, request channel, assets channel) holds at most one pending value.
C1_AtMostOnePending ==
  /\ Len(pb_q) <= 1
  /\ Len(req_q) <= 1
  /\ Len(asset_q) <= 1

\* all three channels hold a pending value at once, after a second snapshot push
C1_Witness ==
  /\ Len(pb_q) = 1 /\ Len(req_q) = 1 /\ Len(asset_q) = 1
  /\ pbLast >= 2

\* C2: latest-value semantics of the snapshot and the assets channel: a value
\* that was not pulled by the time the producer pushes the next one is never
\* delivered to the Coordinator, and a non-empty channel holds exactly the
\* last value pushed, so the one pull that returns a value returns that one.
C2_LatestValue ==
  /\ pbSuperseded \cap pbDelivered = {}
  /\ asSuperseded \cap asDelivered = {}
  /\ pb_q # <<>> => (Len(pb_q) = 1 /\ pb_q[1].seq = pbLast)
  /\ asset_q # <<>> => (Len(asset_q) = 1 /\ asset_q[1].seq = asLast)

\* on both channels a value was pushed over an unpulled one and then pulled
C2_Witness ==
  /\ pbSuperseded # {} /\ pbLast \in pbDelivered
  /\ asSuperseded # {} /\ asLast \in asDelivered

\* C3: no push on any of the three channels ever finds its channel full (the
\* newly produced value is never the one dropped), and the Coordinator's
\* pulls are take-if-present: they can be taken whether or not a value waits.
C3_NoPushFails ==
  /\ pushFailed = {}
  /\ (mpc = "drain_pb" /\ frames < MaxFrames) => ENABLED (MainDrainPb \/ MainTrack)
  /\ mpc = "assets" => ENABLED (MainDrawNothing \/ MainDrawFrame)

\* every producer has pushed, two of them after discarding an unconsumed value
C3_Witness ==
  /\ pbSuperseded # {} /\ reqSuperseded # {} /\ asLast # 0
  /\ pushFailed = {}

\* the requests the code issues for a sequence of track ids evaluated in
\* step 2: one for each id that is present and differs from the last-seen id
RECURSIVE Issued(_, _)
Issued(log, last) ==
  IF log = <<>> THEN <<>>
  ELSE IF Head(log) # None /\ Head(log) # last
         THEN <<Head(log)>> \o Issued(Tail(log), Head(log))
         ELSE Issued(Tail(log), last)

\* the requests the claim as written asks for: one for each id that differs
\* from the last-seen id, which is then recorded as last-seen
RECURSIVE IssuedWhenDiffers(_, _)
IssuedWhenDiffers(log, last) ==
  IF log = <<>> THEN <<>>
  ELSE IF Head(log) # last
         THEN <<Head(log)>> \o IssuedWhenDiffers(Tail(log), Head(log))
         ELSE IssuedWhenDiffers(Tail(log), last)

\* step 2 of the current iteration has run to its end
StepTwoDone == mpc \in {"drain_pb", "assets"}

\* C4 (as written): step 2 enqueues a request exactly when the snapshot's
\* track id differs from the last-seen id, and records it as last-seen.
C4_RequestWhenIdDiffers ==
  StepTwoDone => reqLog = IssuedWhenDiffers(seenLog, None)

\* C4 (amended): step 2 enqueues a request exactly when the snapshot has a
\* track id and that id differs from the last-seen id, and records it as
\* last-seen; a snapshot without a track leaves last-seen as it is.  For the
\* snapshots (A, A, B) from start-up the requests are A (first snapshot) and
\* B, none at the second A.
C4_RequestWhenNewTrack ==
  StepTwoDone =>
    /\ reqLog = Issued(seenLog, None)
    /\ last_seen_tid = (IF reqLog = <<>> THEN None ELSE reqLog[Len(reqLog)])
    /\ seenLog = <<"A", "A", "B">> => reqLog = <<"A", "B">>

\* the scenario (A, A, B) has been evaluated to the end of step 2
C4_Witness ==
  /\ StepTwoDone
  /\ seenLog = <<"A", "A", "B">>
  /\ reqLog = <<"A", "B">>

\* C5 (as written): once stop() has set the Poller's flag no further
\* snapshot is published, not even by the cycle then in progress.
C5_NoPublishAfterStop == pubAfterStop = 0

\* C5 (amended): once stop() has set the Poller's flag no new poll cycle
\* begins; only a cycle in progress at that moment may still publish, so at
\* most one further snapshot is published.
C5_AtMostOnePublishAfterStop ==
  /\ pubAfterStop <= 1
  /\ pubAfterStop = 1 => cycleAtStop
  /\ (p_stop /\ ~cycleAtStop) => ppc \in {"check", "done"}
  /\ (p_stop /\ pubAfterStop = 1) => ppc \in {"check", "done"}

\* the cycle in progress at stop() has published and the Poller has exited
C5_Witness == pubAfterStop = 1 /\ ppc = "done"

\* C6: the tick counter counts the frames presented to the display (every
\* SwapOnVSync, "Nothing" frames included).
C6_TickCountsFrames == tick = frames

\* C7: a poll cycle whose remote query fails publishes nothing and leaves the
\* snapshot channel and the Coordinator's state as they were; the Poller
\* does not terminate because of it (it exits only when stopped) but is back
\* at the head of its loop, from where it polls again; only a cycle whose
\* query succeeded reaches the publishing code.
C7_FailedPollSkipsCycle ==
  [][ /\ (pollResult' = "fail" /\ pollResult # "fail") =>
           (ppc = "check" /\ ppc' = "check" /\ UNCHANGED <<queueVars, mainVars, pbHist, polls>>)
      /\ ppc' = "done" => p_stop'
      /\ ppc' \in {"drain", "put"} => pollResult' \in {"ok", "ok_after_fail"}
    ]_vars

\* a cycle that followed a failed one has published its snapshot
C7_Witness ==
  /\ pollResult = "ok_after_fail"
  /\ ppc = "check" /\ pb_q = <<snap>>

\* C8: assets of a track other than the current snapshot's track are
\* displayed for at most one frame.
C8_StaleAtMostOneFrame == staleRun <= 1

\* C9: a request that was still in the request channel when the Coordinator
\* enqueued the next one is never dequeued by the Fetcher, never fetched and
\* never published as assets.
C9_SupersededRequestNeverProcessed ==
  reqSuperseded \cap
    (reqDequeued \cup asDelivered \cup asSuperseded
       \cup {f_item.seq, f_assets.seq, asLast, cur_assets.seq}) = {}

\* R1 was superseded by R2, and R2 was dequeued and its assets published
C9_Witness ==
  /\ reqSuperseded # {}
  /\ reqLast \in reqDequeued
  /\ asLast = reqLast

\* the greatest 0-based index i with timeline[i] <= time, or -1
GreatestIndex(timeline, time) ==
  LET S == { i \in 0..(Len(timeline) - 1) : timeline[i + 1] <= time } IN
    IF S = {} THEN 0 - 1 ELSE CHOOSE i \in S : \A j \in S : j <= i

\* C10: for a sorted timeline and any t, current_line_index returns the
\* greatest index whose timestamp is <= t, -1 when there is none, and the
\* last of the tied entries when timestamps tie.
C10_GreatestIndex == lpc = "done" => ans = GreatestIndex(lrc, t)

\* a lookup at a tied timestamp returned the last of the tied entries
C10_Witness ==
  /\ lpc = "done"
  /\ lrc = <<1, 1, 2>> /\ t = 1 /\ ans = 1

\* C11: the progress a frame is computed from is the progress of the current
\* snapshot plus the whole milliseconds that passed since the snapshot was
\* taken when the snapshot is playing, and the progress of the snapshot itself
\* when it is paused or has no item; a playing snapshot with progress 10000
\* gives 12500 at 2500 ms after it was taken.  The value depends on the
\* current snapshot and the clock only.
C11_ProgressExtrapolated ==
  rpc = "shown" =>
    /\ (last_snapshot.item # None /\ last_snapshot.is_playing) =>
          progress_ms = last_snapshot.progress_ms + ((now - last_snapshot.ts) \div 1000)
    /\ ~(last_snapshot.item # None /\ last_snapshot.is_playing) =>
          progress_ms = last_snapshot.progress_ms
    /\ (last_snapshot.item # None /\ last_snapshot.is_playing
          /\ last_snapshot.progress_ms = 10000 /\ now - last_snapshot.ts = 2500000) =>
          progress_ms = 12500

\* a frame 2500 ms after a playing snapshot with progress 10000
C11_Witness ==
  /\ rpc = "shown"
  /\ last_snapshot.item # None /\ last_snapshot.is_playing
  /\ last_snapshot.progress_ms = 10000
  /\ now - last_snapshot.ts = 2500000
  /\ progress_ms = 12500

\* the timestamps of a timeline
Timestamps(timeline) == [i \in 1..Len(timeline) |-> timeline[i].t]

\* C12: in every frame whose assets have a non-empty timeline in which a line
\* has started at (extrapolated progress + LRC_OFFSET), the lyric line of the
\* frame is the text of the last such line; with the timeline "la la" at 0 s,
\* "second line" at 4 s and no offset it is "la la" while the progress is in
\* [0, 4) s and "second line" while it is in [4, 5) s.
C12_LineOfTheMoment ==
  (rpc = "shown" /\ last_snapshot.item # None /\ cur_assets.lrc # <<>>) =>
    LET at == progress_ms + lrc_offset_ms
        idx == GreatestIndex(Timestamps(cur_assets.lrc), at)
    IN /\ t_ms = at
       /\ idx >= 0 => /\ line_now = cur_assets.lrc[idx + 1].text
                       /\ shown[1].line = line_now
       /\ (cur_assets.lrc = SyncedTimeline /\ lrc_offset_ms = 0) =>
            /\ (0 <= progress_ms /\ progress_ms < 4000) => line_now = "la la"
            /\ (4000 <= progress_ms /\ progress_ms < 5000) => line_now = "second line"

\* a frame at exactly 4 s of the example timeline
C12_Witness ==
  /\ rpc = "shown"
  /\ last_snapshot.item # None
  /\ cur_assets.lrc = SyncedTimeline
  /\ lrc_offset_ms = 0
  /\ progress_ms = 4000
  /\ line_now = "second line"

\* a part of a line that is a time tag of the form [mm:ss.xx
WellFormedTag(p) ==
  /\ Len(p) = 4 /\ p[1] = "[" /\ p[3] = ":"
  /\ p[2] \in {"00", "01"}
  /\ p[4] \in {"00.00", "04.00"}

RECURSIVE WellFormedEntries(_, _)
\* one LyricLine with the text given for each well-formed tag among the parts
WellFormedEntries(parts, lyric) ==
  IF parts = <<>> THEN <<>>
  ELSE (IF WellFormedTag(Head(parts))
          THEN <<LyricLine(TagTime(<<Head(parts)[2]>>, <<Head(parts)[4]>>), lyric)>>
          ELSE <<>>)
       \o WellFormedEntries(Tail(parts), lyric)

RECURSIVE EntriesOfLines(_)
\* the LyricLines of the well-formed tags of the lines given, in text order
EntriesOfLines(ls) ==
  IF ls = <<>> THEN <<>>
  ELSE LET parts == SplitOn(Head(ls), "]")
       IN WellFormedEntries(SubSeq(parts, 1, Len(parts) - 1), StripSpaces(parts[Len(parts)]))
          \o EntriesOfLines(Tail(ls))

\* C13: parse_lrc returns exactly one LyricLine per well-formed time tag, with
\* the trailing text of the tag's line, nothing for a malformed tag or line,
\* sorted ascending by timestamp with ties in text order.
C13_OneEntryPerWellFormedTag ==
  parse_pc = "done" => out = StableSort(EntriesOfLines(SplitLines(lrc_text)))

\* the window of max_chars characters of text + gap spaces + text that starts
\* at the offset given
Window(text, gap, offset, max_chars) ==
  SubSeq(text \o Spaces(gap) \o text, offset + 1, offset + max_chars)

\* C14: marquee_slice_tick returns the text itself when it is no longer than
\* max_chars, and otherwise the window of exactly max_chars characters of
\* text + gap spaces + text that starts at offset
\* floor(tick * cps / fps) mod (len(text) + gap).
C14_WindowAtExactOffset ==
  mq_pc = "done" =>
    mq_out = IF Len(mq_text) <= mq_max THEN mq_text
             ELSE Window(mq_text, mq_gap,
                         ((mq_tick * mq_cps) \div TargetFps) % (Len(mq_text) + mq_gap),
                         mq_max)

\* (len(text) + gap) * fps / cps rounded to a whole number of frames, either
\* way when it lies half way
RoundedPeriods(text, gap, cps) ==
  LET x == (Len(text) + gap) * TargetFps IN
  { p \in {x \div cps, (x \div cps) + 1} :
      2 * (p * cps - x) <= cps /\ 2 * (x - p * cps) <= cps }

\* the ticks at which two slices a period apart are compared
PeriodTicks == 0..(2 * MaxText)

C16_OneFramePerIteration ==
  /\ rpc = "input" => shown = <<>>
  /\ rpc = "shown" =>
        /\ Len(shown) = 1
        /\ last_snapshot.item = None => shown[1] = [text |-> "Nothing"]
        /\ last_snapshot.item # None =>
              /\ shown[1].art = (IF cur_assets.album_img = None THEN "outline" ELSE "image")
              /\ shown[1].title \in {cur_assets.title, "(untitled)"}
              /\ shown[1].line # None

\* a frame for a track whose image and lyrics could not be fetched
C16_Witness ==
  /\ rpc = "shown"
  /\ last_snapshot.item # None
  /\ cur_assets.tid # None
  /\ cur_assets.album_img = None /\ cur_assets.lrc = <<>> /\ cur_assets.plain_lines = Unset
  /\ shown = <<[art |-> "outline", title |-> cur_assets.title, line |-> cur_assets.artists]>>

\* C20: in a frame whose assets have an empty timeline and n >= 1 plain lines
\* the line at tick k is plain line floor(k / (2 * fps)) mod n, an index within
\* 0..n-1; in a frame whose assets have neither a timeline nor plain lines, or
\* a timeline in which no line has started, the line is the artists.
C20_PlainLineOrArtists ==
  (rpc = "shown" /\ last_snapshot.item # None) =>
    /\ (cur_assets.lrc = <<>> /\ cur_assets.plain_lines # Unset) =>
          LET n == Len(cur_assets.plain_lines[1])
              which == (tick \div (2 * TargetFps)) % n
          IN /\ n >= 1
             /\ which \in 0..(n - 1)
             /\ line_now = cur_assets.plain_lines[1][which + 1]
    /\ (cur_assets.lrc = <<>> /\ cur_assets.plain_lines = Unset) =>
          line_now = cur_assets.artists
    /\ (cur_assets.lrc # <<>> /\ GreatestIndex(Timestamps(cur_assets.lrc), t_ms) < 0) =>
          line_now = cur_assets.artists

\* the second plain line, two seconds of ticks after the first
C20_Witness ==
  /\ rpc = "shown"
  /\ last_snapshot.item # None
  /\ cur_assets.lrc = <<>>
  /\ cur_assets.plain_lines = Some(<<"plain one", "plain two">>)
  /\ tick = 2 * TargetFps
  /\ line_now = "plain two"

\* the step that ends the drain of the snapshot channel and does step 2
TrackStep == mpc = "drain_pb" /\ mpc' \in {"drain_req", "assets"}
\* the step that reads the assets channel and draws
AssetsStep == mpc = "assets" /\ mpc' = "drain_pb"

\* C17: an iteration that takes nothing from the snapshot channel leaves
\* last_snapshot and last_seen_tid as they are and issues no request; an
\* iteration that finds the assets channel empty leaves cur_assets as it is,
\* and one that finds a TrackAssets makes exactly that value the current
\* assets.
C17_EmptyChannelsChangeNothing ==
  [][ /\ (TrackStep /\ ~drained) =>
            /\ UNCHANGED <<last_snapshot, last_seen_tid, req_q, reqLog>>
            /\ mpc' = "assets"
      /\ (AssetsStep /\ asset_q = <<>>) => UNCHANGED cur_assets
      /\ (AssetsStep /\ asset_q # <<>>) => cur_assets' = Head(asset_q)
    ]_vars

\* the second iteration on one snapshot of a track: nothing was drained, one
\* request was issued in all, and the assets of the track were taken over
C17_Witness ==
  /\ Len(seenLog) = 2
  /\ seenLog[1] \in Tracks /\ seenLog[2] = seenLog[1]
  /\ Cardinality(pbDelivered) = 1
  /\ Len(reqLog) = 1
  /\ mpc = "drain_pb"
  /\ cur_assets.tid = seenLog[1]
  /\ asset_q = <<>>

\* the reply holds a timed version / holds only plain lyrics
LookupTimed(r) == ~r.raised /\ r.status = 200 /\ StripWhite(r.synced) # <<>>
LookupPlain(r) ==
  /\ ~r.raised /\ r.status = 200
  /\ StripWhite(r.synced) = <<>> /\ StripWhite(r.plain) # <<>>

\* the Fetcher has a request whose assets are filled in
AssetsComplete ==
  \/ fpc \in {"drain", "put"}
  \/ fpc \in {"check", "done"} /\ f_item.seq > 0

\* C18: for each request the Fetcher processes, the assets it publishes
\* hold the parsed timeline and no plain lines when the reply has a timed
\* version, the non-blank plain lines and an empty timeline when the reply
\* has only plain lyrics, and an empty timeline with plain lines unset when
\* the lookup raised, was not answered with status 200 or had neither; the
\* assets of a request are published exactly once (not before they are
\* complete, and by the time the Fetcher is back at its queue), the
\* publication never finds the queue full, and a running Fetcher back at
\* its queue takes the next request.
C18_LyricsByReplyPublishedOnce ==
  /\ AssetsComplete =>
       /\ lyr_reply # <<>>
       /\ LET r == lyr_reply[1] IN
            /\ LookupTimed(r) =>
                 /\ f_assets.lrc \in parse_lrc(StripWhite(r.synced))
                 /\ f_assets.plain_lines = Unset
            /\ LookupPlain(r) =>
                 /\ f_assets.lrc = <<>>
                 /\ f_assets.plain_lines = Some(PlainLines(StripWhite(r.plain)))
                 /\ \A i \in 1..Len(f_assets.plain_lines[1]) :
                      f_assets.plain_lines[1][i] \in {<<"plain one">>, <<"plain two">>}
            /\ (~LookupTimed(r) /\ ~LookupPlain(r)) =>
                 /\ f_assets.lrc = <<>>
                 /\ f_assets.plain_lines = Unset
  /\ fpc \in {"image", "lyrics", "drain", "put"} => asLast < f_item.seq
  /\ (fpc \in {"check", "done"} /\ f_item.seq > 0) => asLast = f_item.seq
  /\ asset_q # <<>> =>
       /\ Len(asset_q) = 1
       /\ Head(asset_q).seq = asLast
       /\ (AssetsComplete /\ asLast = f_item.seq) => Head(asset_q) = f_assets
  /\ "asset" \notin pushFailed
  /\ (fpc = "check" /\ FetcherRunning /\ req_q # <<>>) => ENABLED FetchGet

\* a timed first request was picked up, a plain second one is published and
\* the lookup of the third has raised
C18_Witness ==
  /\ cur_assets.seq = 1 /\ cur_assets.lrc # <<>> /\ cur_assets.plain_lines = Unset
  /\ asset_q # <<>> /\ Head(asset_q).seq = 2
  /\ Head(asset_q).lrc = <<>>
  /\ Head(asset_q).plain_lines = Some(<< <<"plain one">>, <<"plain two">> >>)
  /\ fpc = "drain" /\ f_item.seq = 3
  /\ lyr_reply # <<>> /\ lyr_reply[1].raised
  /\ f_assets.lrc = <<>> /\ f_assets.plain_lines = Unset

\* the image download of the request in hand is over
ImageDone ==
  \/ fpc \in {"lyrics", "drain", "put"}
  \/ fpc \in {"check", "done"} /\ f_item.seq > 0

\* C19: fetch_album_image makes at most two attempts for a request; only
\* the last attempt made can have succeeded; the image is set exactly when
\* the last attempt succeeded; with a url the image is unset only after two
\* failures, and then the assets are still published, image unset.
C19_AtMostTwoAttempts ==
  /\ Len(img_tries) <= ImageAttempts
  /\ \A i \in 1..(Len(img_tries) - 1) : img_tries[i] = "fail"
  /\ fpc = "image" =>
       /\ Len(img_tries) < ImageAttempts
       /\ \A i \in 1..Len(img_tries) : img_tries[i] = "fail"
  /\ ImageDone =>
       /\ f_assets.album_img = "cover" <=>
            (img_tries # <<>> /\ img_tries[Len(img_tries)] = "ok")
       /\ f_assets.album_img = None <=>
            \/ aurl = None /\ img_tries = <<>>
            \/ img_tries = <<"fail", "fail">>
       /\ aurl # None => img_tries # <<>>
  /\ (fpc \in {"check", "done"} /\ f_item.seq > 0 /\ img_tries = <<"fail", "fail">>) =>
       /\ asLast = f_item.seq
       /\ f_assets.album_img = None

\* after two failed attempts the assets are in the queue without an image
C19_Witness ==
  /\ fpc = "check" /\ f_item.seq > 0
  /\ img_tries = <<"fail", "fail">>
  /\ asset_q = <<f_assets>>
  /\ f_assets.album_img = None
  /\ f_assets.tid = "A"

\* C21: once stop() has set the Poller's flag the Poller's loop is left in
\* the end, and likewise the Fetcher's; after its flag is set a worker
\* begins no further pass of its loop body, so what it still does is the
\* rest of the cycle it was in; a Fetcher waiting on an empty request queue
\* comes back to the test of its flag.
C21_StopEndsTheLoops ==
  /\ p_stop ~> (ppc = "done")
  /\ f_stop ~> (fpc = "done")
  /\ (fpc = "get" /\ req_q = <<>>) ~> (fpc # "get")
  /\ [][ /\ p_stop => ~(ppc = "check" /\ ppc' = "query")
         /\ f_stop => ~(fpc = "check" /\ fpc' = "get")
       ]_vars

\* both workers have left their loops; the Poller was in a cycle and the
\* Fetcher had served a request
C21_Witness ==
  /\ p_stop /\ f_stop
  /\ ppc = "done" /\ fpc = "done"
  /\ cycleAtStop
  /\ f_item.seq > 0 /\ asLast = f_item.seq

\* the snapshot the Poller built last is published and is of track X
LastPublishedIs(X) == pbLast > 0 /\ pbLast = snap.seq /\ snap.item = X

\* main() is in its loop
MainLooping == mpc \in MainLoopPcs

\* C22: when from some point on the Poller's publications are all of the
\* track X and main() stays in its loop, then from some point on
\* cur_assets is the assets fetched for X, whatever requests were pending
\* or being served when X was first seen.
C22_AssetsSettleOnLastTrack ==
  \A X \in Tracks :
    (<>[]LastPublishedIs(X) /\ []MainLooping) => <>[](cur_assets.tid = X)

\* main() holds the assets of the track last published, after an earlier
\* request was taken by the Fetcher
C22_Witness ==
  /\ polls = MaxCycles /\ LastPublishedIs(last_snapshot.item)
  /\ last_snapshot.item \in Tracks
  /\ cur_assets.tid = last_snapshot.item
  /\ \E s \in reqDequeued : s < cur_assets.seq
  /\ MainLooping

\* the entries of a queue are in the order of their seq
InSeqOrder(q) == \A i, j \in 1..Len(q) : i < j => q[i].seq < q[j].seq

\* C23: the Poller publishes its snapshots in the order it built them and
\* the Fetcher its assets in the order of the requests; the queues keep
\* that order; main() replaces last_snapshot only by the head of pb_q and
\* cur_assets only by the head of asset_q, and what it adopts was published
\* later than what it held: the adopted snapshots and assets are
\* subsequences, in order, of the published ones.
C23_AdoptedInPublishedOrder ==
  [][ /\ pbLast' # pbLast =>
           /\ pbLast' > pbLast
           /\ pbLast' = snap.seq
           /\ pb_q' = Append(pb_q, snap)
      /\ asLast' # asLast =>
           /\ asLast' > asLast
           /\ asLast' = f_assets.seq
           /\ asset_q' = Append(asset_q, f_assets)
      /\ InSeqOrder(pb_q') /\ InSeqOrder(asset_q')
      /\ \A i \in 1..Len(pb_q') : pb_q'[i].seq <= pbLast'
      /\ \A i \in 1..Len(asset_q') : asset_q'[i].seq <= asLast'
      /\ last_snapshot' # last_snapshot =>
           /\ pb_q # <<>>
           /\ last_snapshot' = Head(pb_q)
           /\ last_snapshot'.seq > last_snapshot.seq
      /\ cur_assets' # cur_assets =>
           /\ asset_q # <<>>
           /\ cur_assets' = Head(asset_q)
           /\ cur_assets'.seq > cur_assets.seq
    ]_vars

\* main() adopted the first and the third snapshot, the second was
\* discarded unseen, and it adopted the assets of two requests in turn
C23_Witness ==
  /\ pbDelivered = {1, 3} /\ 2 \in pbSuperseded
  /\ last_snapshot.seq = 3
  /\ Cardinality(asDelivered) = 2
  /\ cur_assets.seq = 3

====
